---- MODULE Spec2Model ----
(***************************************************************************)
(* Model of the SwiftAzureOpenAI model pipeline scripts:                   *)
(*   Scripts/prune-openapi-spec.py     (reachability pruner)               *)
(*   Scripts/generate-swift-models.py  (type compiler)                     *)
(*   Scripts/classify-model-changes.py (snapshot parser, diff classifier)  *)
(*                                                                         *)
(* Python dicts are functions whose DOMAIN is the set of keys present      *)
(* ("k in d" is k \in DOMAIN d), Python lists are sequences, Python sets   *)
(* are sets.  A Python string is a sequence of tokens, so that startswith, *)
(* replace, split, count and the regular expressions act on what the       *)
(* string contains.                                                        *)
(***************************************************************************)
EXTENDS Integers, Sequences, FiniteSets, TLC

VARIABLES
    pc,                  \* position of the running script
    spec,                \* pruner: the loaded source document
    referenced_schemas,  \* pruner: collect_referenced_schemas' name set
    schemas_to_process,  \* pruner: collect_referenced_schemas' worklist
    pruned,              \* pruner: the document prune_spec returns
    saved,               \* pruner: the saved output this run was given as source
    gspec,               \* generator: self.spec, the document being compiled
    models_content,      \* generator: what write_generated_models writes
    emitted,             \* generator: the declarations it emitted, in order
    types,               \* classifier: what parse_models returns
    old,                 \* classifier: compare's first argument
    new,                 \* classifier: compare's second argument
    result               \* classifier: what compare returns

prunerVars == <<spec, referenced_schemas, schemas_to_process, pruned, saved>>

generatorVars == <<gspec, models_content, emitted, types>>

classifierVars == <<old, new, result>>

vars == <<pc, prunerVars, generatorVars, classifierVars>>

(***************************************************************************)
(* Generic helpers for Python values.                                      *)
(***************************************************************************)
Range(s) == {s[i] : i \in DOMAIN s}

\* d.get(k, default)
Get(d, k, default) == IF k \in DOMAIN d THEN d[k] ELSE default

\* list(a_set): the elements in the order the set's iteration gives, which
\* the language leaves open.
ListsOf(S) == {s \in [1..Cardinality(S) -> S] : Range(s) = S}

\* The empty dict.
EmptyDict == [k \in {} |-> k]

\* The value of a variable of a script that is not running.
Idle == <<>>

(***************************************************************************)
(* JSON values of the schema document, as the pruner walks them.           *)
(*   [t |-> "dict", d |-> key -> value]   a JSON object                    *)
(*   [t |-> "list", l |-> <<value, ...>>] a JSON array                     *)
(*   [t |-> "str",  s |-> <<token, ...>>] a JSON string                    *)
(***************************************************************************)
Dict(d) == [t |-> "dict", d |-> d]

List(l) == [t |-> "list", l |-> l]

Str(s) == [t |-> "str", s |-> s]

\* "#/components/schemas/"
SchemaPrefix == "#/components/schemas/"

\* ref_path.startswith("#/components/schemas/")
StartsWithSchemaPrefix(ref_path) == Len(ref_path) > 0 /\ ref_path[1] = SchemaPrefix

\* ref_path.replace("#/components/schemas/", ""): every occurrence goes.
RemoveSchemaPrefix(ref_path) == SelectSeq(ref_path, LAMBDA tok : tok # SchemaPrefix)

\* The text of a token sequence that is one name; any other text is no
\* schema name of the model's documents.
NameText(toks) == IF Len(toks) = 1 THEN toks[1] ELSE "<not-a-name>"

\* extract_refs_from_obj: the names it adds to referenced_schemas.
RECURSIVE extract_refs_from_obj(_)
extract_refs_from_obj(obj) ==
    IF obj.t = "dict"
    THEN IF "$ref" \in DOMAIN obj.d
         THEN IF StartsWithSchemaPrefix(obj.d["$ref"].s)
              THEN {NameText(RemoveSchemaPrefix(obj.d["$ref"].s))}
              ELSE {}
         ELSE UNION {extract_refs_from_obj(obj.d[k]) : k \in DOMAIN obj.d}
    ELSE IF obj.t = "list"
    THEN UNION {extract_refs_from_obj(obj.l[i]) : i \in DOMAIN obj.l}
    ELSE {}

\* get_required_endpoints
get_required_endpoints == {"/responses", "/embeddings", "/files", "/files/{file_id}"}

\* spec.get("components", {}): the document is a dict of JSON values.
ComponentsOf(doc) == Get(doc, "components", Dict(EmptyDict)).d

\* spec.get("components", {}).get("schemas", {})
SchemasOf(doc) == Get(ComponentsOf(doc), "schemas", Dict(EmptyDict)).d

\* spec.get("paths", {})
PathsOf(doc) == Get(doc, "paths", Dict(EmptyDict)).d

\* The names extracted from the kept paths (the loop over paths.items()).
SeedRefs(doc, paths_to_keep) ==
    UNION {extract_refs_from_obj(PathsOf(doc)[p]) : p \in DOMAIN PathsOf(doc) \cap paths_to_keep}

\* A plausible slip in new_schemas: the operands of the set difference swapped.
NewSchemasSwapped(referenced, to_process, schema_name) ==
    (Range(to_process) \ referenced) \ {schema_name}

\* new_schemas = referenced_schemas - set(schemas_to_process) - {schema_name}
NewSchemas(referenced, to_process, schema_name) ==
    (referenced \ Range(to_process)) \ {schema_name}

\* A plausible slip in the growth test: ">=" for ">".
SetGrewOrSame(referenced, old_count) == Cardinality(referenced) >= old_count

\* if len(referenced_schemas) > old_count
SetGrew(referenced, old_count) == Cardinality(referenced) > old_count

\* f restricted to the keys in S.
Restrict(f, S) == [k \in DOMAIN f \cap S |-> f[k]]

\* A plausible slip in the security block: the requirement is appended to
\* the source's security list.
SecurityPartAppended(doc) ==
    LET schemes == Get(ComponentsOf(doc), "securitySchemes", Dict(EmptyDict)).d
    IN  IF "ApiKeyAuth" \in DOMAIN schemes
        THEN [schemes  |-> ("securitySchemes" :> Dict("ApiKeyAuth" :> schemes["ApiKeyAuth"])),
              security |-> ("security" :> List(Get(doc, "security", List(<<>>)).l
                                               \o <<Dict("ApiKeyAuth" :> List(<<>>))>>))]
        ELSE [schemes |-> EmptyDict, security |-> EmptyDict]

\* A plausible slip in the security block: it is kept only when the source's
\* top-level security list names the scheme, and the list is copied.
SecurityPartReferenced(doc) ==
    LET schemes == Get(ComponentsOf(doc), "securitySchemes", Dict(EmptyDict)).d
        reqs    == Get(doc, "security", List(<<>>)).l
    IN  IF "ApiKeyAuth" \in DOMAIN schemes
           /\ \E i \in DOMAIN reqs : "ApiKeyAuth" \in DOMAIN reqs[i].d
        THEN [schemes  |-> ("securitySchemes" :> Dict("ApiKeyAuth" :> schemes["ApiKeyAuth"])),
              security |-> ("security" :> doc["security"])]
        ELSE [schemes |-> EmptyDict, security |-> EmptyDict]

\* prune_spec, the block "Keep minimal security for Azure OpenAI": the keys it
\* adds to pruned["components"] and to pruned.
SecurityPart(doc) ==
    LET schemes == Get(ComponentsOf(doc), "securitySchemes", Dict(EmptyDict)).d
    IN  IF "ApiKeyAuth" \in DOMAIN schemes
        THEN [schemes  |-> ("securitySchemes" :> Dict("ApiKeyAuth" :> schemes["ApiKeyAuth"])),
              security |-> ("security" :> List(<<Dict("ApiKeyAuth" :> List(<<>>))>>))]
        ELSE [schemes |-> EmptyDict, security |-> EmptyDict]

\* prune_spec: the document it returns, given what collect_referenced_schemas
\* returned.
PrunedDocument(doc, referenced) ==
    ("openapi" :> Get(doc, "openapi", Str(<<"3.0.1">>)))
    @@ ("info" :> Get(doc, "info", Dict(EmptyDict)))
    @@ ("servers" :> Get(doc, "servers", List(<<>>)))
    @@ ("paths" :> Dict(Restrict(PathsOf(doc), get_required_endpoints)))
    @@ ("components" :>
            Dict(("schemas" :> Dict(Restrict(SchemasOf(doc), referenced)))
                 @@ SecurityPart(doc).schemes))
    @@ SecurityPart(doc).security

(***************************************************************************)
(* The schema documents the pruner is run on.                              *)
(***************************************************************************)
\* Largest number of distinct schemas one schema body refers to.
MaxFanout == 2

\* Schema names a document may define; "Z" is referred to but never defined.
Names == {"A", "B", "C"}

Targets == Names \cup {"Z"}

\* {"$ref": "#/components/schemas/<n>"}
RefNode(n) == Dict("$ref" :> Str(<<SchemaPrefix, n>>))

\* {"$ref": "#/components/parameters/<n>"}: a reference to no schema.
ParamRefNode(n) == Dict("$ref" :> Str(<<"#/components/parameters/", n>>))

\* An object schema with one property per name in S, each a reference.
ObjBody(S) ==
    Dict(("type" :> Str(<<"object">>)) @@ ("properties" :> Dict([n \in S |-> RefNode(n)])))

\* An array schema whose items are one of a reference and a plain string.
ListBody(n) ==
    Dict(("type" :> Str(<<"array">>))
         @@ ("items" :> Dict("anyOf" :> List(<<Dict("type" :> Str(<<"string">>)), RefNode(n)>>))))

\* A reference to n with a sibling key that holds a reference to m: the
\* sibling of a "$ref" is not walked.
ShadowBody(n, m) ==
    Dict(("$ref" :> Str(<<SchemaPrefix, n>>)) @@ ("x-note" :> RefNode(m)))

Bodies ==
    {ObjBody(S) : S \in {T \in SUBSET Targets : Cardinality(T) <= MaxFanout}}
    \cup {ListBody(n) : n \in Targets}
    \cup {ShadowBody(n, m) : n \in {"A", "B"}, m \in {"B", "C", "Z"}}
    \cup {ParamRefNode("A")}

\* An operation that refers to the schemas in S.
PathItem(S) ==
    Dict("post" :> Dict(("operationId" :> Str(<<"op">>))
                        @@ ("responses" :> Dict([n \in S |-> RefNode(n)]))))

PathTables ==
    { ("/responses" :> PathItem({"A"})) @@ ("/chat/completions" :> PathItem({"C"})),
      ("/responses" :> PathItem({"A"})) @@ ("/files" :> PathItem({"B"})),
      ("/chat/completions" :> PathItem({"A", "B"})),
      ("/responses" :> PathItem({})) @@ ("/embeddings" :> PathItem({"C"})),
      ("/files/{file_id}" :> PathItem({"Z"})) @@ ("/responses" :> PathItem({"B"})) }

SchemaTables ==
    {("A" :> a) @@ ("B" :> b) @@ c :
        a \in Bodies, b \in Bodies,
        c \in {EmptyDict} \cup {"C" :> ObjBody(S) : S \in {T \in SUBSET Targets : Cardinality(T) <= 1}}}

\* Documents that vary the schema graph and the paths.
GraphDocuments ==
    {("openapi" :> Str(<<"3.0.0">>)) @@ ("paths" :> Dict(p))
        @@ ("components" :> Dict("schemas" :> Dict(s))) :
        p \in PathTables, s \in SchemaTables}
    \cup {("components" :> Dict("schemas" :> Dict(s))) : s \in SchemaTables}

ApiKeyScheme == Dict(("type" :> Str(<<"apiKey">>)) @@ ("name" :> Str(<<"api-key">>)))

OAuthScheme == Dict("type" :> Str(<<"oauth2">>))

SchemeTables ==
    { EmptyDict,
      "securitySchemes" :> Dict("ApiKeyAuth" :> ApiKeyScheme),
      "securitySchemes" :> Dict("OAuth" :> OAuthScheme),
      "securitySchemes" :> Dict(("ApiKeyAuth" :> ApiKeyScheme) @@ ("OAuth" :> OAuthScheme)),
      "securitySchemes" :> Dict(EmptyDict) }

SecurityLists ==
    { EmptyDict,
      "security" :> List(<<>>),
      "security" :> List(<<Dict("ApiKeyAuth" :> List(<<>>))>>),
      "security" :> List(<<Dict("OAuth" :> List(<<Str(<<"read">>)>>))>>),
      "security" :> List(<<Dict("OAuth" :> List(<<>>)), Dict("ApiKeyAuth" :> List(<<>>))>>) }

MetaParts ==
    {o @@ i @@ s :
        o \in {EmptyDict, "openapi" :> Str(<<"3.1.0">>)},
        i \in {EmptyDict, "info" :> Dict("title" :> Str(<<"Azure OpenAI">>))},
        s \in {EmptyDict, "servers" :> List(<<Dict("url" :> Str(<<"https://host">>))>>)}}

\* Documents that vary the metadata and the security entries.
MetaDocuments ==
    {m @@ sec @@ ("paths" :> Dict(("/responses" :> PathItem({"A"})) @@ ("/chat/completions" :> PathItem({"C"}))))
        @@ ("components" :> Dict(("schemas" :> Dict(("A" :> ObjBody({"B"})) @@ ("B" :> ObjBody({})) @@ ("C" :> ObjBody({"A"}))))
                                 @@ sch)) :
        m \in MetaParts, sec \in SecurityLists, sch \in SchemeTables}

SourceDocuments == GraphDocuments \cup MetaDocuments

(***************************************************************************)
(* prune-openapi-spec.py: main() loads the document and calls prune_spec,  *)
(* which calls collect_referenced_schemas.                                 *)
(***************************************************************************)
InitPrune ==
    /\ pc = "collect"
    /\ spec \in SourceDocuments
    /\ referenced_schemas = {}
    /\ schemas_to_process = <<>>
    /\ pruned = EmptyDict
    /\ saved = Idle
    /\ gspec = Idle /\ models_content = Idle /\ emitted = Idle /\ types = Idle
    /\ old = Idle /\ new = Idle /\ result = Idle

\* collect_referenced_schemas up to the while loop: the names the kept paths
\* refer to, and the worklist list(referenced_schemas).
CollectSeed ==
    /\ pc = "collect"
    /\ referenced_schemas' = SeedRefs(spec, get_required_endpoints)
    /\ schemas_to_process' \in ListsOf(referenced_schemas')
    /\ pc' = "loop"
    /\ UNCHANGED <<spec, pruned, saved, generatorVars, classifierVars>>

\* One iteration of "while schemas_to_process".
ProcessSchema ==
    /\ pc = "loop"
    /\ schemas_to_process # <<>>
    /\ LET n           == Len(schemas_to_process)
           schema_name == schemas_to_process[n]
           rest        == SubSeq(schemas_to_process, 1, n - 1)
           schemas     == SchemasOf(spec)
       IN  IF schema_name \in DOMAIN schemas
           THEN LET old_count == Cardinality(referenced_schemas)
                    after     == referenced_schemas \cup extract_refs_from_obj(schemas[schema_name])
                    new_schemas == NewSchemas(after, rest, schema_name)
                IN  /\ referenced_schemas' = after
                    /\ IF SetGrew(after, old_count)
                       THEN \E ext \in ListsOf(new_schemas) : schemas_to_process' = rest \o ext
                       ELSE schemas_to_process' = rest
           ELSE /\ referenced_schemas' = referenced_schemas
                /\ schemas_to_process' = rest
    /\ UNCHANGED <<pc, spec, pruned, saved, generatorVars, classifierVars>>

\* The worklist is empty: collect_referenced_schemas returns and prune_spec
\* builds the pruned document.
PruneSpec ==
    /\ pc = "loop"
    /\ schemas_to_process = <<>>
    /\ pruned' = PrunedDocument(spec, referenced_schemas)
    /\ pc' = "pruned"
    /\ UNCHANGED <<spec, referenced_schemas, schemas_to_process, saved, generatorVars, classifierVars>>

\* The script is run once more, on the document its first run saved: main()
\* loads it and calls prune_spec again.
PruneAgain ==
    /\ pc = "pruned"
    /\ saved = Idle
    /\ saved' = pruned
    /\ spec' = pruned
    /\ referenced_schemas' = {}
    /\ schemas_to_process' = <<>>
    /\ pruned' = EmptyDict
    /\ pc' = "collect"
    /\ UNCHANGED <<generatorVars, classifierVars>>

NextPrune == CollectSeed \/ ProcessSchema \/ PruneSpec \/ PruneAgain

SpecPrune == InitPrune /\ [][NextPrune]_vars

\* The script runs alone and to its end: a step that can be taken is taken.
SpecPruneFair == SpecPrune /\ WF_vars(NextPrune)

(***************************************************************************)
(* Claims about the pruner.                                                *)
(***************************************************************************)
\* The schema names a JSON value refers to in one hop: the targets of its
\* "$ref": "#/components/schemas/<name>" entries.
RECURSIVE ReferenceHops(_)
ReferenceHops(obj) ==
    CASE obj.t = "str"  -> {}
      [] obj.t = "list" -> UNION {ReferenceHops(x) : x \in Range(obj.l)}
      [] obj.t = "dict" ->
            IF "$ref" \notin DOMAIN obj.d
            THEN UNION {ReferenceHops(x) : x \in Range(obj.d)}
            ELSE {n \in Targets : obj.d["$ref"].s = <<SchemaPrefix, n>>}

\* The names reachable from the operations of the kept paths in at most k
\* hops through defined schemas.
RECURSIVE ReachableWithin(_, _)
ReachableWithin(doc, k) ==
    IF k = 0
    THEN UNION {ReferenceHops(PathsOf(doc)[p]) :
                    p \in DOMAIN PathsOf(doc) \cap get_required_endpoints}
    ELSE LET R == ReachableWithin(doc, k - 1)
         IN  R \cup UNION {ReferenceHops(SchemasOf(doc)[n]) : n \in R \cap DOMAIN SchemasOf(doc)}

\* A shortest chain of hops passes through each defined schema at most once.
Reachable(doc) == ReachableWithin(doc, Cardinality(DOMAIN SchemasOf(doc)))

\* C1: whatever the order in which the worklist is processed, the schemas of
\* the pruned document are exactly the defined schemas reachable from the
\* operations of the kept paths through zero or more reference hops.
C1_ClosureCorrectness ==
    pc = "pruned" =>
        DOMAIN SchemasOf(pruned) = Reachable(spec) \cap DOMAIN SchemasOf(spec)

\* C1 witness: a pruned document that keeps a schema found only through
\* another schema, drops a defined schema, and met an undefined reference.
C1_Witness ==
    /\ pc = "pruned"
    /\ \E n \in DOMAIN SchemasOf(pruned) : n \notin ReachableWithin(spec, 0)
    /\ DOMAIN SchemasOf(spec) \ DOMAIN SchemasOf(pruned) # {}
    /\ "Z" \in referenced_schemas

\* C11: the worklist loop of collect_referenced_schemas ends on every
\* document, also with schemas that refer to themselves or to each other in
\* a cycle and with references to undefined schemas, so that prune_spec
\* returns, in every run of the script; and no step of the loop takes a
\* name out of referenced_schemas.
C11_WorklistTerminates ==
    /\ <>[](pc = "pruned" /\ schemas_to_process = <<>>)
    /\ [][pc = "loop" => referenced_schemas \subseteq referenced_schemas']_vars

\* C11 witness: the loop has ended on a document in which two kept schemas
\* refer to each other, a kept schema refers to itself, and a reference to
\* an undefined schema was met.
C11_Witness ==
    /\ pc = "pruned"
    /\ schemas_to_process = <<>>
    /\ \E n, m \in DOMAIN SchemasOf(pruned) :
          /\ n # m
          /\ m \in ReferenceHops(SchemasOf(spec)[n])
          /\ n \in ReferenceHops(SchemasOf(spec)[m])
    /\ \E n \in DOMAIN SchemasOf(pruned) : n \in ReferenceHops(SchemasOf(spec)[n])
    /\ "Z" \in referenced_schemas

\* C14: pruning the pruned document gives the pruned document again: the
\* same paths, schemas, metadata and security entries.
C14_PruneIdempotent ==
    (pc = "pruned" /\ saved # Idle) => pruned = saved

\* C14 witness: a second run has ended on a saved document that has kept
\* paths, kept schemas and the security entries, and returns it unchanged.
C14_Witness ==
    /\ pc = "pruned"
    /\ saved # Idle
    /\ spec = saved
    /\ DOMAIN PathsOf(saved) # {}
    /\ DOMAIN SchemasOf(saved) # {}
    /\ "security" \in DOMAIN saved
    /\ pruned = saved

\* The security schemes of a document's components, {} when there are none.
SecuritySchemesOf(doc) == Get(ComponentsOf(doc), "securitySchemes", Dict(EmptyDict)).d

\* Whether the document's top-level security requirement list names scheme.
ReferencedBySecurityList(doc, scheme) ==
    /\ "security" \in DOMAIN doc
    /\ \E req \in Range(doc["security"].l) : scheme \in DOMAIN req.d

\* C10 as stated: the scheme is carried only when the source defines it and
\* the source's top-level security list refers to it, and then the scheme
\* and the security list are the source's; otherwise the pruned document
\* has neither.
C10_Original ==
    pc = "pruned" =>
        IF /\ "ApiKeyAuth" \in DOMAIN SecuritySchemesOf(spec)
           /\ ReferencedBySecurityList(spec, "ApiKeyAuth")
        THEN /\ SecuritySchemesOf(pruned) = ("ApiKeyAuth" :> SecuritySchemesOf(spec)["ApiKeyAuth"])
             /\ "security" \in DOMAIN pruned
             /\ pruned["security"] = spec["security"]
        ELSE /\ "securitySchemes" \notin DOMAIN ComponentsOf(pruned)
             /\ "security" \notin DOMAIN pruned

\* C10 amended: the pruned document carries the ApiKeyAuth scheme, as the
\* source defines it, exactly when the source's securitySchemes define
\* ApiKeyAuth, whatever the source's security list says; its security list is
\* then the fixed [{"ApiKeyAuth": []}], and no other scheme is carried.
\* Otherwise it has no securitySchemes and no security entry.
C10_ApiKeyAuthPassThrough ==
    pc = "pruned" =>
        IF "ApiKeyAuth" \in DOMAIN SecuritySchemesOf(spec)
        THEN /\ "securitySchemes" \in DOMAIN ComponentsOf(pruned)
             /\ SecuritySchemesOf(pruned) = ("ApiKeyAuth" :> SecuritySchemesOf(spec)["ApiKeyAuth"])
             /\ "security" \in DOMAIN pruned
             /\ pruned["security"] = List(<<Dict("ApiKeyAuth" :> List(<<>>))>>)
        ELSE /\ "securitySchemes" \notin DOMAIN ComponentsOf(pruned)
             /\ "security" \notin DOMAIN pruned

\* C10 witness: the source defines ApiKeyAuth and a second scheme, its
\* security list does not name ApiKeyAuth, and the pruned document carries
\* ApiKeyAuth.
C10_Witness ==
    /\ pc = "pruned"
    /\ DOMAIN SecuritySchemesOf(spec) = {"ApiKeyAuth", "OAuth"}
    /\ ~ReferencedBySecurityList(spec, "ApiKeyAuth")
    /\ "security" \in DOMAIN spec
    /\ "ApiKeyAuth" \in DOMAIN SecuritySchemesOf(pruned)
    /\ "security" \in DOMAIN pruned

(***************************************************************************)
(* Python strings as token sequences.  A token is a word, a digit or one   *)
(* punctuation character; the text of a string is its tokens run together. *)
(***************************************************************************)
\* The tokens of the model in code-point order, which is the order sorted()
\* gives strings.  No word of the list is the beginning of another, so the
\* order of two strings is the order of their first differing tokens.
TokenOrder ==
    << " ", "\"", "-", ".", "/", "1", ":", "=", "?",
       "Any", "Azure", "Bool", "CaseIterable", "Codable", "CodingKey", "CodingKeys",
       "Completed", "Create", "Date", "Double", "Embedding", "Equatable", "Error",
       "Expires", "File", "Float", "Generated", "Int", "Int64", "Number", "OpenAI",
       "Openai", "Request", "Response", "SAOAIJSONValue", "Status", "String", "Text",
       "URL", "Widget", "[", "]", "_",
       "after", "blue", "case", "completed", "enum", "error", "expires", "for",
       "green", "id", "in", "let", "max", "model", "name", "openai", "private",
       "progress", "public", "red", "size", "status", "struct", "the", "tokens",
       "unknown", "widget", "{", "}" >>

TokenRank(tok) == CHOOSE i \in DOMAIN TokenOrder : TokenOrder[i] = tok

\* a < b for Python strings.
RECURSIVE StrLess(_, _)
StrLess(a, b) ==
    IF a = <<>> THEN b # <<>>
    ELSE IF b = <<>> THEN FALSE
    ELSE IF a[1] = b[1] THEN StrLess(Tail(a), Tail(b))
    ELSE TokenRank(a[1]) < TokenRank(b[1])

\* sorted(S) for a set of strings.
RECURSIVE Sorted(_)
Sorted(S) ==
    IF S = {} THEN <<>>
    ELSE LET least == CHOOSE x \in S : \A y \in S \ {x} : StrLess(x, y)
         IN  <<least>> \o Sorted(S \ {least})

\* The concatenation of a list of lists.
RECURSIVE Flatten(_)
Flatten(ss) == IF ss = <<>> THEN <<>> ELSE Head(ss) \o Flatten(Tail(ss))

\* The number of entries of list s equal to x.
RECURSIVE Count(_, _)
Count(s, x) ==
    IF s = <<>> THEN 0 ELSE (IF Head(s) = x THEN 1 ELSE 0) + Count(Tail(s), x)

(***************************************************************************)
(* classify-model-changes.py: compare.                                     *)
(* A snapshot is a dict from type name to {'kind': 'struct', 'properties': *)
(* name -> type text} or {'kind': 'enum', 'cases': sorted names}.          *)
(***************************************************************************)
\* A plausible slip: the names compared the wrong way round.
RemovedTypesSwapped(old_names, new_names) == Sorted(new_names \ old_names)

\* removed_types = sorted(old_names - new_names)
RemovedTypes(old_names, new_names) == Sorted(old_names \ new_names)

\* A plausible slip: the old names are not taken out.
AddedTypesAll(old_names, new_names) == Sorted(new_names)

\* added_types = sorted(new_names - old_names)
AddedTypes(old_names, new_names) == Sorted(new_names \ old_names)

\* A plausible slip: the old type compared with itself.
TypeChangedByName(o_props, n_props, iteration) ==
    SelectSeq(iteration, LAMBDA k : k \in DOMAIN o_props \cap DOMAIN n_props /\ o_props[k] # o_props[k])

\* type_changed: the keys of o_keys & n_keys whose types differ, in the order
\* the set is iterated.
TypeChanged(o_props, n_props, iteration) ==
    SelectSeq(iteration,
              LAMBDA k : k \in DOMAIN o_props \cap DOMAIN n_props /\ o_props[k] # n_props[k])

\* The body of "for t in sorted(old_names & new_names)" for one t: what it
\* appends to type_changes, added_members and removed_members.
CompareType(t, o, n, iteration) ==
    IF o.kind # n.kind
    THEN [type_changes |-> <<t>>, added |-> <<>>, removed |-> <<>>]
    ELSE IF o.kind = "struct"
    THEN LET o_props      == o.properties
             n_props      == n.properties
             added_p      == Sorted(DOMAIN n_props \ DOMAIN o_props)
             removed_p    == Sorted(DOMAIN o_props \ DOMAIN n_props)
             type_changed == TypeChanged(o_props, n_props, iteration)
         IN  [type_changes |-> <<>>,
              added   |-> [i \in DOMAIN added_p |-> t \o <<".">> \o added_p[i]]
                          \o [i \in DOMAIN type_changed |->
                                t \o <<".">> \o type_changed[i] \o <<":">> \o n_props[type_changed[i]]],
              removed |-> [i \in DOMAIN removed_p |-> t \o <<".">> \o removed_p[i]]
                          \o [i \in DOMAIN type_changed |->
                                t \o <<".">> \o type_changed[i] \o <<":">> \o o_props[type_changed[i]]]]
    ELSE LET o_cases   == Range(o.cases)
             n_cases   == Range(n.cases)
             added_c   == Sorted(n_cases \ o_cases)
             removed_c == Sorted(o_cases \ n_cases)
         IN  [type_changes |-> <<>>,
              added   |-> [i \in DOMAIN added_c |-> t \o <<".", "case", ".">> \o added_c[i]],
              removed |-> [i \in DOMAIN removed_c |-> t \o <<".", "case", ".">> \o removed_c[i]]]

\* A plausible slip: type_changes left out of major_conditions.
SemverWithoutKindChanges(removed_types, removed_members, type_changes, added_types, added_members) ==
    IF removed_types # <<>> \/ removed_members # <<>> THEN "major"
    ELSE IF added_types # <<>> \/ added_members # <<>> THEN "minor"
    ELSE "patch"

\* A plausible slip: the additions tested before the breaking changes.
SemverAdditionsFirst(removed_types, removed_members, type_changes, added_types, added_members) ==
    IF added_types # <<>> \/ added_members # <<>> THEN "minor"
    ELSE IF removed_types # <<>> \/ removed_members # <<>> \/ type_changes # <<>> THEN "major"
    ELSE "patch"

\* "determine semver"
Semver(removed_types, removed_members, type_changes, added_types, added_members) ==
    IF removed_types # <<>> \/ removed_members # <<>> \/ type_changes # <<>> THEN "major"
    ELSE IF added_types # <<>> \/ added_members # <<>> THEN "minor"
    ELSE "patch"

\* compare(old, new); iteration is the order in which Python iterates a set
\* of property names.
compare(o, n, iteration) ==
    LET old_names     == DOMAIN o
        new_names     == DOMAIN n
        added_types   == AddedTypes(old_names, new_names)
        removed_types == RemovedTypes(old_names, new_names)
        common        == Sorted(old_names \cap new_names)
        per_type      == [i \in DOMAIN common |->
                            CompareType(common[i], o[common[i]], n[common[i]], iteration)]
        type_changes    == Flatten([i \in DOMAIN common |-> per_type[i].type_changes])
        added_members   == Flatten([i \in DOMAIN common |-> per_type[i].added])
        removed_members == Flatten([i \in DOMAIN common |-> per_type[i].removed])
    IN  [added_types       |-> added_types,
         removed_types     |-> removed_types,
         changed_type_kind |-> type_changes,
         added_members     |-> added_members,
         removed_members   |-> removed_members,
         semver            |-> Semver(removed_types, removed_members, type_changes,
                                      added_types, added_members)]

\* Largest number of cases of an enumeration in a snapshot.
MaxCases == 2

CaseUniverse == << <<"blue">>, <<"green">>, <<"red">> >>

CaseNames == {CaseUniverse[i] : i \in 1..MaxCases}

TypeNames == { <<"Status">>, <<"Widget">> }

PropNames == { <<"name">>, <<"size">> }

PropTypes == { <<"Text">>, <<"Number">>, <<"Text", "?">> }

StructDecls ==
    {[kind |-> "struct", properties |-> props] :
        props \in UNION {[K -> PropTypes] : K \in SUBSET PropNames}}

EnumDecls == {[kind |-> "enum", cases |-> Sorted(K)] : K \in SUBSET CaseNames}

\* What parse_models can return for declarations over these names.
Snapshots == UNION {[K -> StructDecls \cup EnumDecls] : K \in SUBSET TypeNames}

(***************************************************************************)
(* classify-model-changes.py: main() parses the two files and calls        *)
(* compare.                                                                *)
(***************************************************************************)
InitCompare ==
    /\ pc = "compare"
    /\ old \in Snapshots
    /\ new \in Snapshots
    /\ result = Idle
    /\ spec = Idle /\ referenced_schemas = Idle /\ schemas_to_process = Idle /\ pruned = Idle
    /\ saved = Idle
    /\ gspec = Idle /\ models_content = Idle /\ emitted = Idle /\ types = Idle

Compare ==
    /\ pc = "compare"
    /\ \E iteration \in ListsOf(PropNames) : result' = compare(old, new, iteration)
    /\ pc' = "compared"
    /\ UNCHANGED <<old, new, prunerVars, generatorVars>>

NextCompare == Compare

SpecCompare == InitCompare /\ [][NextCompare]_vars

(***************************************************************************)
(* Claims about compare.                                                   *)
(***************************************************************************)
\* C3: the severity is 'major' exactly when removed_types, changed_type_kind
\* or removed_members is non-empty, 'minor' exactly when none of those is and
\* added_types or added_members is non-empty, 'patch' exactly when all five
\* lists are empty; a type of the old snapshot that the new one lacks gives
\* 'major' whatever is added.
C3_SeverityRule ==
    pc = "compared" =>
        LET breaking == \/ result.removed_types # <<>>
                        \/ result.changed_type_kind # <<>>
                        \/ result.removed_members # <<>>
            additive == result.added_types # <<>> \/ result.added_members # <<>>
        IN  /\ result.semver \in {"major", "minor", "patch"}
            /\ result.semver = "major" <=> breaking
            /\ result.semver = "minor" <=> (~breaking /\ additive)
            /\ result.semver = "patch" <=> (~breaking /\ ~additive)
            /\ DOMAIN old \ DOMAIN new # {} => result.semver = "major"

\* C3 witness: a type is removed while another type is added, and the
\* severity is 'major'.
C3_Witness ==
    /\ pc = "compared"
    /\ DOMAIN old \ DOMAIN new # {}
    /\ DOMAIN new \ DOMAIN old # {}
    /\ result.added_types # <<>>
    /\ result.semver = "major"

\* The record types of both snapshots.
CommonStructs ==
    {t \in DOMAIN old \cap DOMAIN new : old[t].kind = "struct" /\ new[t].kind = "struct"}

\* The entries of a member list that are about property k of type t.
EntriesAbout(members, t, k) ==
    SelectSeq(members,
              LAMBDA e : e = t \o <<".">> \o k
                         \/ (Len(e) > Len(t) + Len(k) + 1
                             /\ SubSeq(e, 1, Len(t) + Len(k) + 2) = t \o <<".">> \o k \o <<":">>))

\* C4: for a record in both snapshots, a property in both with different
\* type texts gives exactly one entry Type.property:oldType in removed_members
\* and exactly one entry Type.property:newType in added_members, and nothing
\* else about it anywhere in the result; a property with the same type text
\* gives no entry.
C4_TypeChangeIsRemovePlusAdd ==
    pc = "compared" =>
        \A t \in CommonStructs :
            \A k \in DOMAIN old[t].properties \cap DOMAIN new[t].properties :
                LET ot == old[t].properties[k]
                    nt == new[t].properties[k]
                IN  IF ot # nt
                    THEN /\ EntriesAbout(result.removed_members, t, k)
                                = << t \o <<".">> \o k \o <<":">> \o ot >>
                         /\ EntriesAbout(result.added_members, t, k)
                                = << t \o <<".">> \o k \o <<":">> \o nt >>
                         /\ Count(result.added_types, t) = 0
                         /\ Count(result.removed_types, t) = 0
                         /\ Count(result.changed_type_kind, t) = 0
                    ELSE /\ EntriesAbout(result.removed_members, t, k) = <<>>
                         /\ EntriesAbout(result.added_members, t, k) = <<>>

\* C4 witness: a record with one property whose type text changed and one
\* whose type text did not.
C4_Witness ==
    /\ pc = "compared"
    /\ \E t \in CommonStructs :
          \E k1, k2 \in DOMAIN old[t].properties \cap DOMAIN new[t].properties :
              /\ old[t].properties[k1] # new[t].properties[k1]
              /\ old[t].properties[k2] = new[t].properties[k2]
              /\ Len(result.removed_members) = 1
              /\ Len(result.added_members) = 1

\* The entries of a member list that are about type t.
MembersOf(members, t) ==
    SelectSeq(members, LAMBDA e : Len(e) > Len(t) /\ SubSeq(e, 1, Len(t) + 1) = t \o <<".">>)

\* The types in both snapshots, a record in one and an enumeration in the
\* other.
KindChanged == {t \in DOMAIN old \cap DOMAIN new : old[t].kind # new[t].kind}

\* C13: every type that is in both snapshots with different kinds is listed
\* in changed_type_kind, has no entry in added_members or removed_members,
\* and makes the severity 'major'.
C13_KindChangeIsMajor ==
    pc = "compared" =>
        \A t \in KindChanged :
            /\ t \in Range(result.changed_type_kind)
            /\ MembersOf(result.added_members, t) = <<>>
            /\ MembersOf(result.removed_members, t) = <<>>
            /\ result.semver = "major"

\* C13 witness: a record with properties became an enumeration with cases,
\* nothing was removed, and the severity is 'major'.
C13_Witness ==
    /\ pc = "compared"
    /\ \E t \in KindChanged :
          /\ old[t].kind = "struct" /\ DOMAIN old[t].properties # {}
          /\ new[t].kind = "enum" /\ new[t].cases # <<>>
          /\ t \in Range(result.changed_type_kind)
    /\ result.removed_types = <<>>
    /\ result.removed_members = <<>>
    /\ result.semver = "major"

\* C15: compare with its arguments swapped reports the added types as
\* removed and the removed as added, the same set of member entries on the
\* other side, and the same changed_type_kind; a snapshot compared with
\* itself gives empty lists and 'patch'.
C15_SwapAntisymmetry ==
    pc = "compared" =>
        /\ \A iteration \in ListsOf(PropNames) :
              LET swapped == compare(new, old, iteration)
              IN  /\ result.added_types = swapped.removed_types
                  /\ result.removed_types = swapped.added_types
                  /\ Range(result.added_members) = Range(swapped.removed_members)
                  /\ Range(result.removed_members) = Range(swapped.added_members)
                  /\ result.changed_type_kind = swapped.changed_type_kind
        /\ old = new =>
              /\ result.added_types = <<>> /\ result.removed_types = <<>>
              /\ result.changed_type_kind = <<>>
              /\ result.added_members = <<>> /\ result.removed_members = <<>>
              /\ result.semver = "patch"

\* C15 witness: two different snapshots with a type only in the new one and
\* a common record whose properties differ both ways; the swapped call
\* reports the added type as removed.
C15_Witness ==
    /\ pc = "compared"
    /\ old # new
    /\ result.added_types # <<>>
    /\ result.added_members # <<>>
    /\ result.removed_members # <<>>
    /\ \E iteration \in ListsOf(PropNames) :
          /\ compare(new, old, iteration).removed_types = result.added_types
          /\ compare(new, old, iteration).added_types = <<>>

\* C9 as stated: when either snapshot is the empty type set, every type of
\* the other is reported added and nothing is reported removed, so the
\* severity is not 'major'.
C9_Original ==
    pc = "compared" =>
        /\ old = EmptyDict =>
              /\ result.added_types = Sorted(DOMAIN new)
              /\ result.removed_types = <<>> /\ result.removed_members = <<>>
              /\ result.semver # "major"
        /\ new = EmptyDict =>
              /\ result.added_types = Sorted(DOMAIN old)
              /\ result.removed_types = <<>> /\ result.removed_members = <<>>
              /\ result.semver # "major"

\* C9 amended: when the old snapshot is the empty type set, every type of the
\* new one is reported added, nothing is reported removed and the severity is
\* not 'major'; when the new snapshot is the empty type set, every type of
\* the old one is reported removed, nothing is reported added, and the
\* severity is 'major' unless the old snapshot is empty too.
C9_EmptySnapshot ==
    pc = "compared" =>
        /\ old = EmptyDict =>
              /\ result.added_types = Sorted(DOMAIN new)
              /\ result.removed_types = <<>> /\ result.removed_members = <<>>
              /\ result.changed_type_kind = <<>> /\ result.added_members = <<>>
              /\ result.semver = (IF new = EmptyDict THEN "patch" ELSE "minor")
        /\ new = EmptyDict =>
              /\ result.removed_types = Sorted(DOMAIN old)
              /\ result.added_types = <<>> /\ result.added_members = <<>>
              /\ result.changed_type_kind = <<>> /\ result.removed_members = <<>>
              /\ result.semver = (IF old = EmptyDict THEN "patch" ELSE "major")

\* C9 witness: the new snapshot is empty, the old one has two types, both
\* are reported removed and the severity is 'major'.
C9_Witness ==
    /\ pc = "compared"
    /\ new = EmptyDict
    /\ Cardinality(DOMAIN old) = 2
    /\ Len(result.removed_types) = 2
    /\ result.semver = "major"

(***************************************************************************)
(* String operations of generate-swift-models.py.  A run of whitespace is  *)
(* the one token " ".                                                      *)
(***************************************************************************)
\* The words of the model, lower-case form first, then the form with its
\* first letter in upper case.
CaseForms ==
    { <<"after", "After">>, <<"azure", "Azure">>, <<"completed", "Completed">>,
      <<"create", "Create">>, <<"embedding", "Embedding">>, <<"error", "Error">>,
      <<"expires", "Expires">>, <<"file", "File">>, <<"generated", "Generated">>,
      <<"in", "In">>, <<"max", "Max">>, <<"missing", "Missing">>, <<"name", "Name">>,
      <<"openai", "Openai">>, <<"progress", "Progress">>, <<"request", "Request">>,
      <<"response", "Response">>, <<"size", "Size">>, <<"status", "Status">>,
      <<"tokens", "Tokens">>, <<"widget", "Widget">> }

\* tok.lower()
LowerTok(tok) ==
    IF tok = "OpenAI" THEN "openai"
    ELSE IF \E f \in CaseForms : f[2] = tok
    THEN (CHOOSE f \in CaseForms : f[2] = tok)[1]
    ELSE tok

\* tok[0].islower()
IsLowerInitial(tok) == \E f \in CaseForms : f[1] = tok

\* tok[0].upper() + tok[1:]
UpperFirstTok(tok) ==
    IF IsLowerInitial(tok) THEN (CHOOSE f \in CaseForms : f[1] = tok)[2] ELSE tok

\* c.isalnum() for every character of the token: words and digits.
Punctuation ==
    {" ", "\"", "-", ".", "/", "//", "///", ":", "=", "?", "[", "]", "{", "}", ",", "_"}

IsAlnumTok(tok) == tok \notin Punctuation

\* A character of [A-Za-z0-9_].
IsIdentTok(tok) == tok = "_" \/ IsAlnumTok(tok)

\* s.lower()
Lower(s) == [i \in DOMAIN s |-> LowerTok(s[i])]

\* s.capitalize(): first character upper case, the rest lower case.
Capitalize(s) == [i \in DOMAIN s |-> IF i = 1 THEN UpperFirstTok(LowerTok(s[i])) ELSE LowerTok(s[i])]

\* pat in s
Contains(s, pat) ==
    \E i \in 1..(Len(s) - Len(pat) + 1) : SubSeq(s, i, i + Len(pat) - 1) = pat

\* s.replace(pat, rep), pat not empty: every occurrence, left to right.
RECURSIVE ReplaceAll(_, _, _)
ReplaceAll(s, pat, rep) ==
    IF Len(s) < Len(pat) THEN s
    ELSE IF SubSeq(s, 1, Len(pat)) = pat
    THEN rep \o ReplaceAll(SubSeq(s, Len(pat) + 1, Len(s)), pat, rep)
    ELSE <<s[1]>> \o ReplaceAll(Tail(s), pat, rep)

\* s.split(sep) for a one-character sep.
RECURSIVE Split(_, _)
Split(s, sep) ==
    IF \A i \in DOMAIN s : s[i] # sep THEN <<s>>
    ELSE LET i == CHOOSE j \in DOMAIN s : s[j] = sep /\ \A k \in 1..(j - 1) : s[k] # sep
         IN  <<SubSeq(s, 1, i - 1)>> \o Split(SubSeq(s, i + 1, Len(s)), sep)

\* ''.join(part.capitalize() for part in parts)
JoinCapitalized(parts) == Flatten([i \in DOMAIN parts |-> Capitalize(parts[i])])

\* s.strip()
RECURSIVE Strip(_)
Strip(s) ==
    IF s = <<>> THEN s
    ELSE IF s[1] = " " THEN Strip(Tail(s))
    ELSE IF s[Len(s)] = " " THEN Strip(SubSeq(s, 1, Len(s) - 1))
    ELSE s

\* The longest beginning of s made of [A-Za-z0-9_] characters.
RECURSIVE IdentPrefix(_)
IdentPrefix(s) ==
    IF s # <<>> /\ IsIdentTok(s[1]) THEN <<s[1]>> \o IdentPrefix(Tail(s)) ELSE <<>>

(***************************************************************************)
(* generate-swift-models.py: SwiftModelGenerator.                          *)
(* A schema is a dict; the schemas of the document and the properties of   *)
(* an object are ordered dicts, lists of [name, schema] entries in         *)
(* document order.                                                         *)
(***************************************************************************)
\* name in an ordered dict
Has(entries, name) == \E i \in DOMAIN entries : entries[i].name = name

\* an ordered dict's value for name
Lookup(entries, name) ==
    entries[CHOOSE i \in DOMAIN entries : entries[i].name = name].schema

\* swift_class_name, lines 80-81: the vendor prefixes are removed.
WithoutVendor(name) == ReplaceAll(ReplaceAll(name, <<"OpenAI", ".">>, <<>>), <<"Azure">>, <<>>)

\* swift_class_name, lines 90-97: if sep in name, the parts capitalized and
\* joined.
CapitalizedParts(name, sep) ==
    IF Contains(name, <<sep>>) THEN JoinCapitalized(Split(name, sep)) ELSE name

\* swift_class_name, lines 100-101: "Ensure first letter is capitalized".
FirstUpper(name) ==
    IF name # <<>> /\ IsLowerInitial(name[1]) THEN <<UpperFirstTok(name[1])>> \o Tail(name)
    ELSE name

\* swift_class_name, lines 104-107: "Handle special cases".
SpecialCases(name) ==
    ReplaceAll(
      ReplaceAll(
        ReplaceAll(
          ReplaceAll(name, <<"Create", "Embedding", "Request">>, <<"Embedding", "Request">>),
          <<"Create", "Embedding", "Response">>, <<"Embedding", "Response">>),
        <<"Create", "File", "Request">>, <<"File", "Request">>),
      <<"Create", "Response">>, <<"Response", "Request">>)

\* swift_class_name, lines 110-111: "Ensure it starts with 'Generated'".
WithGenerated(name) ==
    IF name # <<>> /\ name[1] = "Generated" THEN name ELSE <<"Generated">> \o name

\* swift_class_name, from line 84 on.
ClassNameOf(name) ==
    IF name = <<"expires", "_", "after">> THEN <<"Generated", "Expires", "After">>
    ELSE IF name = <<"error">> THEN <<"Generated", "Error">>
    ELSE WithGenerated(SpecialCases(FirstUpper(
             CapitalizedParts(CapitalizedParts(name, "."), "_"))))

\* swift_class_name
swift_class_name(raw) == ClassNameOf(WithoutVendor(raw))

\* swift_property_name
swift_property_name(name) ==
    LET components == Split(name, "_")
    IN  IF Len(components) > 1
        THEN components[1] \o JoinCapitalized(Tail(components))
        ELSE name

\* A plausible slip: the object branch returns the dictionary type that the
\* has_non_equatable test of generate_struct looks for.
ObjectTypeDictionary == <<"[", "String", ":", " ", "Any", "]">>

\* swift_type_from_schema, the 'object' branch: both arms return the same.
ObjectType == <<"SAOAIJSONValue">>

\* A plausible slip: a union is given the placeholder type.
UnionTypePlaceholder == <<"SAOAIJSONValue">>

\* swift_type_from_schema, both 'anyOf' branches.
UnionType == <<"String">>

\* A plausible slip: a string with an enum constraint is named after the
\* schema it is found under.
EnumStringTypeNamed(schema_name) == swift_class_name(schema_name)

\* swift_type_from_schema, 'string' with 'enum' ("We'll handle enums
\* separately").
EnumStringType(schema_name) == <<"String">>

\* swift_type_from_schema, the '$ref' branch for a reference that starts
\* with '#/components/schemas/'.
ReferenceType(ref_name, schemas) ==
    IF Has(schemas, ref_name) /\ "anyOf" \in DOMAIN Lookup(schemas, ref_name)
    THEN UnionType
    ELSE swift_class_name(ref_name)

\* swift_type_from_schema(schema, schema_name), with self.spec's schemas.
RECURSIVE swift_type_from_schema(_, _, _)
swift_type_from_schema(schema, schema_name, schemas) ==
    IF "$ref" \in DOMAIN schema /\ StartsWithSchemaPrefix(schema["$ref"])
    THEN ReferenceType(RemoveSchemaPrefix(schema["$ref"]), schemas)
    ELSE IF "anyOf" \in DOMAIN schema THEN UnionType
    ELSE LET schema_type   == Get(schema, "type", "string")
             schema_format == Get(schema, "format", "None")
         IN  CASE schema_type = "string" ->
                    IF "enum" \in DOMAIN schema THEN EnumStringType(schema_name)
                    ELSE IF schema_format = "date-time" THEN <<"Date">>
                    ELSE IF schema_format = "uri" THEN <<"URL">>
                    ELSE <<"String">>
              [] schema_type = "integer" ->
                    IF schema_format = "int64" THEN <<"Int64">> ELSE <<"Int">>
              [] schema_type = "number" ->
                    IF schema_format = "float" THEN <<"Float">> ELSE <<"Double">>
              [] schema_type = "boolean" -> <<"Bool">>
              [] schema_type = "array" ->
                    <<"[">> \o swift_type_from_schema(Get(schema, "items", EmptyDict), <<>>, schemas)
                            \o <<"]">>
              [] schema_type = "object" -> ObjectType
              [] OTHER -> <<"Any">>

\* c.isdigit()
IsDigitTok(tok) == tok \in {"1"}

\* generate_enum: the identifier made from an enum value.
case_name_of(value) ==
    LET lowered  == Lower(value)
        replaced == [i \in DOMAIN lowered |->
                        IF lowered[i] \in {".", "-", " "} THEN "_" ELSE lowered[i]]
        cleaned  == [i \in DOMAIN replaced |->
                        IF IsAlnumTok(replaced[i]) \/ replaced[i] = "_" THEN replaced[i] ELSE "_"]
        prefixed == IF cleaned # <<>> /\ IsDigitTok(cleaned[1])
                    THEN <<"case", "_">> \o cleaned ELSE cleaned
    IN  IF prefixed = <<>> THEN <<"unknown">> ELSE prefixed

\* generate_enum(name, schema): the lines of the declaration, and the
\* declaration they state.
generate_enum(name, schema) ==
    LET swift_name  == swift_class_name(name)
        enum_values == Get(schema, "enum", <<>>)
    IN  [lines |->
            << <<"///", " ", "Generated", " ", "enum", " ", "for", " ">> \o name,
               <<"public", " ", "enum", " ">> \o swift_name
                   \o <<":", " ", "String", ",", " ", "Codable", ",", " ", "CaseIterable", " ", "{">> >>
            \o [i \in DOMAIN enum_values |->
                  <<" ", "case", " ">> \o case_name_of(enum_values[i])
                      \o <<" ", "=", " ", "\"">> \o enum_values[i] \o <<"\"">>]
            \o << <<"}">>, <<>> >>,
         decl |-> [kind   |-> "enum",
                   source |-> name,
                   name   |-> swift_name,
                   cases |-> [i \in DOMAIN enum_values |-> case_name_of(enum_values[i])]]]

\* clean_description for the descriptions of the model's documents: they hold
\* no markdown link and are shorter than 200 characters, so only
\* ' '.join(description.split()) acts.
clean_description(description) == Strip(description)

\* generate_struct, one property: its name and type as declared.
PropertyDeclaration(entry, required, schemas) ==
    LET swift_type == swift_type_from_schema(entry.schema, entry.name, schemas)
    IN  [name        |-> swift_property_name(entry.name),
         type        |-> IF entry.name \in required THEN swift_type ELSE swift_type \o <<"?">>,
         description |-> clean_description(Get(entry.schema, "description", <<>>)),
         wire        |-> entry.name]

\* generate_struct (the second definition of the class, which replaces the
\* first): the lines of the declaration, and the declaration they state.
generate_struct(name, schema, schemas) ==
    LET swift_name  == swift_class_name(name)
        properties  == Get(schema, "properties", <<>>)
        required    == Range(Get(schema, "required", <<>>))
        has_non_equatable ==
            \E i \in DOMAIN properties :
                Contains(swift_type_from_schema(properties[i].schema, properties[i].name, schemas),
                         <<"[", "String", ":", " ", "Any", "]">>)
        conformance == IF has_non_equatable THEN <<"Codable">>
                       ELSE <<"Codable", ",", " ", "Equatable">>
        props       == [i \in DOMAIN properties |->
                            PropertyDeclaration(properties[i], required, schemas)]
        coding_keys_needed == \E i \in DOMAIN props : props[i].name # props[i].wire
    IN  [lines |->
            << <<"///", " ", "Generated", " ", "model", " ", "for", " ">> \o name,
               <<"public", " ", "struct", " ">> \o swift_name \o <<":", " ">> \o conformance
                   \o <<" ", "{">> >>
            \o Flatten([i \in DOMAIN props |->
                  (IF props[i].description # <<>>
                   THEN << <<" ", "///", " ">> \o props[i].description >> ELSE <<>>)
                  \o << <<" ", "public", " ", "let", " ">> \o props[i].name \o <<":", " ">>
                            \o props[i].type,
                        <<>> >>])
            \o (IF coding_keys_needed
                THEN << <<" ", "private", " ", "enum", " ", "CodingKeys", ":", " ", "String",
                          ",", " ", "CodingKey", " ", "{">> >>
                     \o [i \in DOMAIN props |->
                            IF props[i].name # props[i].wire
                            THEN <<" ", "case", " ">> \o props[i].name
                                     \o <<" ", "=", " ", "\"">> \o props[i].wire \o <<"\"">>
                            ELSE <<" ", "case", " ">> \o props[i].name]
                     \o << <<" ", "}">>, <<>> >>
                ELSE <<>>)
            \o << <<"}">>, <<>> >>,
         decl |-> [kind        |-> "struct",
                   source      |-> name,
                   name        |-> swift_name,
                   conformance |-> conformance,
                   properties  |-> [i \in DOMAIN props |->
                                        [name |-> props[i].name, type |-> props[i].type]]]]

\* self.spec.get('components', {}).get('schemas', {})
GeneratorSchemas(doc) == Get(Get(doc, "components", EmptyDict), "schemas", <<>>)

\* generate_models: "Generate enums first", then "Generate structs"; what
\* each loop appends, entry by entry.
GeneratedBlocks(doc) ==
    LET schemas == GeneratorSchemas(doc)
        enums   == SelectSeq(schemas,
                       LAMBDA en : Get(en.schema, "type", "None") = "string"
                                   /\ "enum" \in DOMAIN en.schema)
        structs == SelectSeq(schemas,
                       LAMBDA en : Get(en.schema, "type", "None") = "object"
                                   \/ "properties" \in DOMAIN en.schema)
    IN  [i \in DOMAIN enums |-> generate_enum(enums[i].name, enums[i].schema)]
        \o [i \in DOMAIN structs |-> generate_struct(structs[i].name, structs[i].schema, schemas)]

\* generate_models: the lines joined by '\n'.
generate_models(doc) ==
    << <<"//", " ", "Generated", " ", "Swift", " ", "Models", " ", "from", " ", "OpenAPI",
         " ", "Specification">>,
       <<"//", " ", "DO", " ", "NOT", " ", "EDIT", ":", " ", "This", " ", "file", " ", "is",
         " ", "automatically", " ", "generated">>,
       <<>>,
       <<"import", " ", "Foundation">>,
       <<>> >>
    \o Flatten([i \in DOMAIN GeneratedBlocks(doc) |-> GeneratedBlocks(doc)[i].lines])

\* The declarations generate_models emitted, in order.
EmittedDeclarations(doc) == [i \in DOMAIN GeneratedBlocks(doc) |-> GeneratedBlocks(doc)[i].decl]

(***************************************************************************)
(* classify-model-changes.py: parse_models.                                *)
(***************************************************************************)
\* text.splitlines() of lines joined by '\n', none of which holds a line
\* break: a last empty line is not a line of the text.
SplitLines(text) ==
    IF text # <<>> /\ text[Len(text)] = <<>> THEN SubSeq(text, 1, Len(text) - 1) ELSE text

\* s with its leading whitespace dropped (the \s* after ^).
LStrip(s) == IF s # <<>> /\ s[1] = " " THEN Tail(s) ELSE s

\* TYPE_PATTERN_STRUCT / TYPE_PATTERN_ENUM .match(line): group 1, or the empty
\* string when the pattern does not match.
MatchType(line, keyword) ==
    LET l == LStrip(line)
    IN  IF Len(l) >= 5 /\ l[1] = "public" /\ l[2] = " " /\ l[3] = keyword /\ l[4] = " "
        THEN IdentPrefix(SubSeq(l, 5, Len(l)))
        ELSE <<>>

\* Whether the text from position n + 1 on matches (?:\s*//.*)?$ .
CommentOrEnd(r, n) ==
    \/ n = Len(r)
    \/ r[n + 1] \in {"//", "///"}
    \/ (r[n + 1] = " " /\ n + 2 <= Len(r) /\ r[n + 2] \in {"//", "///"})

\* PROP_PATTERN.match(b.strip()): [matched, name, type], the groups 1 and 2.
MatchProp(b) ==
    LET l     == Strip(b)
        name  == IF Len(l) >= 5 /\ l[1] = "public" /\ l[2] = " " /\ l[3] = "let" /\ l[4] = " "
                 THEN IdentPrefix(SubSeq(l, 5, Len(l))) ELSE <<>>
        after == SubSeq(l, 5 + Len(name), Len(l))
        colon == LStrip(after)
        r     == IF colon # <<>> /\ colon[1] = ":" THEN LStrip(Tail(colon)) ELSE <<>>
        ends  == {n \in 1..Len(r) :
                    /\ \A i \in 1..n : r[i] # "="
                    /\ CommentOrEnd(r, n)}
    IN  IF name # <<>> /\ ends # {}
        THEN [matched |-> TRUE, name |-> name,
              type |-> SubSeq(r, 1, CHOOSE n \in ends : \A m \in ends : n <= m)]
        ELSE [matched |-> FALSE, name |-> <<>>, type |-> <<>>]

\* ENUM_CASE_PATTERN.match(b.strip()): group 1, or the empty string.
MatchCase(b) ==
    LET l == Strip(b)
    IN  IF Len(l) >= 3 /\ l[1] = "case" /\ l[2] = " "
        THEN IdentPrefix(SubSeq(l, 3, Len(l)))
        ELSE <<>>

\* line.count('{') - line.count('}')
BraceDelta(line) == Count(line, "{") - Count(line, "}")

\* The inner "while i < len(lines)" started at line j with the given depth:
\* the index of the line at which it breaks, Len(lines) + 1 if it never does.
RECURSIVE BodyEnd(_, _, _)
BodyEnd(lines, j, brace_depth) ==
    IF j > Len(lines) THEN j
    ELSE LET depth == brace_depth + BraceDelta(lines[j])
         IN  IF depth <= 0 THEN j ELSE BodyEnd(lines, j + 1, depth)

\* props of a struct body: a later line replaces an earlier one of the name.
RECURSIVE BodyProps(_, _)
BodyProps(body_lines, props) ==
    IF body_lines = <<>> THEN props
    ELSE LET pm == MatchProp(body_lines[1])
         IN  BodyProps(Tail(body_lines),
                       IF pm.matched
                       THEN [k \in DOMAIN props \cup {pm.name} |->
                                IF k = pm.name THEN Strip(pm.type) ELSE props[k]]
                       ELSE props)

\* cases of an enum body.
BodyCases(body_lines) ==
    {MatchCase(body_lines[i]) : i \in DOMAIN body_lines} \ {<<>>}

\* body_lines of the declaration at line i.
BodyLines(lines, i, brace_depth) ==
    LET end == BodyEnd(lines, i + 1, brace_depth)
    IN  SubSeq(lines, i + 1, IF end > Len(lines) THEN Len(lines) ELSE end)

\* parse_models, the outer "while i < len(lines)" from line i on.
RECURSIVE ParseFrom(_, _, _)
ParseFrom(lines, i, parsed) ==
    IF i > Len(lines) THEN parsed
    ELSE LET line     == lines[i]
             m_struct == MatchType(line, "struct")
             m_enum   == MatchType(line, "enum")
         IN  IF m_struct # <<>> \/ m_enum # <<>>
             THEN LET kind   == IF m_struct # <<>> THEN "struct" ELSE "enum"
                      name   == IF m_struct # <<>> THEN m_struct ELSE m_enum
                      depth0 == IF Count(line, "{") > 0 THEN BraceDelta(line) ELSE 0
                      end    == BodyEnd(lines, i + 1, depth0)
                      body_lines == BodyLines(lines, i, depth0)
                      decl   == IF kind = "struct"
                                THEN [kind |-> kind, properties |-> BodyProps(body_lines, EmptyDict)]
                                ELSE [kind |-> kind, cases |-> Sorted(BodyCases(body_lines))]
                  IN  ParseFrom(lines, end + 1,
                                [k \in DOMAIN parsed \cup {name} |->
                                    IF k = name THEN decl ELSE parsed[k]])
             ELSE ParseFrom(lines, i + 1, parsed)

\* parse_models(text)
parse_models(text) == ParseFrom(SplitLines(text), 1, EmptyDict)

(***************************************************************************)
(* The documents the generator is run on.                                  *)
(***************************************************************************)
\* Largest number of schemas of a document that varies the schema names.
MaxDocSchemas == 2

\* {"$ref": "#/components/schemas/<name>"}
SchemaRef(name) == "$ref" :> (<<SchemaPrefix>> \o name)

Entry(name, schema) == [name |-> name, schema |-> schema]

StatusValues == << <<"in", "_", "progress">>, <<"completed">> >>

\* The schemas a property can have.
PropertySchemas ==
    { EmptyDict,
      [type |-> "string"],
      [type |-> "string", format |-> "date-time"],
      [type |-> "string", format |-> "uri"],
      [type |-> "string", enum |-> StatusValues],
      [enum |-> StatusValues],
      [type |-> "integer"],
      [type |-> "integer", format |-> "int64"],
      [type |-> "number"],
      [type |-> "number", format |-> "float"],
      [type |-> "boolean"],
      [type |-> "array", items |-> [type |-> "string"]],
      [type |-> "array"],
      [type |-> "array", items |-> SchemaRef(<<"Status">>)],
      [type |-> "array", items |-> [type |-> "object"]],
      [type |-> "object"],
      [type |-> "object", properties |-> <<Entry(<<"size">>, [type |-> "integer"])>>],
      [anyOf |-> <<[type |-> "string"], [type |-> "integer"]>>],
      [type |-> "object", anyOf |-> <<[type |-> "string"]>>],
      [type |-> "null"],
      SchemaRef(<<"Status">>),
      SchemaRef(<<"Missing">>),
      "$ref" :> <<"#/definitions/", "Status">>,
      SchemaRef(<<"Status">>) @@ [type |-> "string", enum |-> StatusValues] }

\* The schemas a property's reference to Status can find.
StatusSchemas ==
    { [type |-> "string", enum |-> StatusValues],
      [anyOf |-> <<[type |-> "string"], SchemaRef(<<"Missing">>)>>],
      [type |-> "object"],
      [type |-> "object", properties |-> <<Entry(<<"size">>, [type |-> "integer"])>>] }

\* Documents that vary the schema of one property of a record.
TypeDocuments ==
    {[components |-> [schemas |->
        <<Entry(<<"Widget">>,
                [type |-> "object",
                 properties |-> <<Entry(<<"status">>, ps)>>,
                 required |-> req])>> \o rest]] :
        ps \in PropertySchemas,
        req \in {<<>>, << <<"status">> >>},
        rest \in {<<>>} \cup {<<Entry(<<"Status">>, ss)>> : ss \in StatusSchemas}}

SchemaNames ==
    { <<"Widget">>, <<"Status">>, <<"OpenAI", ".", "Status">>, <<"error">>,
      <<"Create", "Response">> }

\* The schemas a document can define under a name.
TopSchemas ==
    { [type |-> "string", enum |-> StatusValues],
      [type |-> "string", enum |-> << <<"Completed">>, <<"completed">>, <<>>, <<"1", ".", "size">> >>],
      [type |-> "string"],
      [anyOf |-> <<[type |-> "string"]>>],
      [type |-> "object"],
      [properties |-> <<Entry(<<"max", "_", "tokens">>, [type |-> "integer"]),
                        Entry(<<"name">>, [type |-> "string"])>>,
       required |-> << <<"name">> >>] }

RECURSIVE EntryLists(_)
EntryLists(n) ==
    IF n = 0 THEN {<<>>}
    ELSE LET shorter == EntryLists(n - 1)
         IN  shorter \cup
             {l \o <<Entry(name, schema)>> :
                 l \in {x \in shorter : Len(x) = n - 1}, name \in SchemaNames, schema \in TopSchemas}

\* Documents that vary the names and kinds of their schemas; a JSON object
\* has no key twice.
NameDocuments ==
    {[components |-> [schemas |-> l]] :
        l \in {x \in EntryLists(MaxDocSchemas) :
                 \A i, j \in DOMAIN x : x[i].name = x[j].name => i = j}}

Descriptions ==
    { <<>>,
      <<"the", " ", "name">>,
      <<"the", " ", "{", "id", "}">>,
      <<"the", " ", "}">>,
      <<"the", " ", "{">> }

\* Documents that vary the names and descriptions of a record's properties.
PropertyDocuments ==
    {[components |-> [schemas |->
        <<Entry(<<"Widget">>,
                [type |-> "object",
                 properties |->
                    <<Entry(pn, IF d = <<>> THEN [type |-> "string"]
                                ELSE [type |-> "string", description |-> d]),
                      Entry(<<"size">>, [type |-> "integer"])>>])>>
        \o rest]] :
        pn \in { <<"name">>, <<"max", "_", "tokens">>, <<"max", "-", "tokens">>, <<"size", "_">> },
        d \in Descriptions,
        rest \in {<<>>, <<Entry(<<"Status">>, [type |-> "object"])>>}}

GeneratorDocuments ==
    TypeDocuments \cup NameDocuments \cup PropertyDocuments \cup {EmptyDict}

(***************************************************************************)
(* generate-swift-models.py: main() loads the pruned document and writes   *)
(* the generated models; classify-model-changes.py then parses the file.   *)
(***************************************************************************)
InitGenerate ==
    /\ pc = "generate"
    /\ gspec \in GeneratorDocuments
    /\ models_content = Idle /\ emitted = Idle /\ types = Idle
    /\ spec = Idle /\ referenced_schemas = Idle /\ schemas_to_process = Idle /\ pruned = Idle
    /\ saved = Idle
    /\ old = Idle /\ new = Idle /\ result = Idle

\* write_generated_models: models_content = self.generate_models()
GenerateModels ==
    /\ pc = "generate"
    /\ models_content' = generate_models(gspec)
    /\ emitted' = EmittedDeclarations(gspec)
    /\ pc' = "generated"
    /\ UNCHANGED <<gspec, types, prunerVars, classifierVars>>

\* main() of the classifier: parse_models(text) of the written file.
ParseModels ==
    /\ pc = "generated"
    /\ types' = parse_models(models_content)
    /\ pc' = "parsed"
    /\ UNCHANGED <<gspec, models_content, emitted, prunerVars, classifierVars>>

NextGenerate == GenerateModels \/ ParseModels

SpecGenerate == InitGenerate /\ [][NextGenerate]_vars

(***************************************************************************)
(* Claims about the generator and the parser.                              *)
(***************************************************************************)
Generated == pc \in {"generated", "parsed"}

\* A type text without its optional marker.
BaseType(type) ==
    IF type # <<>> /\ type[Len(type)] = "?" THEN SubSeq(type, 1, Len(type) - 1) ELSE type

\* Whether a schema node carries a reference into components/schemas.
HasSchemaRef(node) == "$ref" \in DOMAIN node /\ StartsWithSchemaPrefix(node["$ref"])

\* The structs the generator emitted.
EmittedStructs == {i \in DOMAIN emitted : emitted[i].kind = "struct"}

\* The schema a declaration was generated for.
SourceSchema(d) == Lookup(GeneratorSchemas(gspec), d.source)

\* Every property schema of an emitted record with the type text declared
\* for it, and the items schema of every array property with the text
\* inside the brackets.
MappedNodes ==
    UNION {
        LET props == Get(SourceSchema(emitted[i]), "properties", <<>>)
        IN  UNION {
              LET node == props[k].schema
                  type == BaseType(emitted[i].properties[k].type)
              IN  {[node |-> node, type |-> type]}
                  \cup (IF ~HasSchemaRef(node) /\ "anyOf" \notin DOMAIN node
                           /\ Get(node, "type", "string") = "array" /\ "items" \in DOMAIN node
                        THEN {[node |-> node["items"], type |-> SubSeq(type, 2, Len(type) - 1)]}
                        ELSE {})
              : k \in DOMAIN props}
        : i \in EmittedStructs}

\* C2 as stated: parsing the generated text gives one entry per emitted
\* declaration, with its name and kind, for a struct the property names with
\* their type texts, for an enum the set of case identifiers.
C2_RoundTrip ==
    pc = "parsed" =>
        /\ \A i, j \in DOMAIN emitted : emitted[i].name = emitted[j].name => i = j
        /\ DOMAIN types = {emitted[i].name : i \in DOMAIN emitted}
        /\ \A i \in DOMAIN emitted :
              LET d == emitted[i]
                  p == types[d.name]
              IN  /\ p.kind = d.kind
                  /\ d.kind = "struct" =>
                        /\ DOMAIN p.properties = {d.properties[k].name : k \in DOMAIN d.properties}
                        /\ \A k \in DOMAIN d.properties :
                              p.properties[d.properties[k].name] = d.properties[k].type
                  /\ d.kind = "enum" => Range(p.cases) = Range(d.cases)

\* The names of the schemas that the properties of an emitted record refer
\* to and the document does not define.
MissingTargets ==
    {RemoveSchemaPrefix(m.node["$ref"]) :
        m \in {x \in MappedNodes :
                 HasSchemaRef(x.node)
                 /\ ~Has(GeneratorSchemas(gspec), RemoveSchemaPrefix(x.node["$ref"]))}}

\* C5 as stated: a reference to a schema that the document lacks makes the
\* compiler fail; it writes no declaration that names the missing type.
C5_MissingReferenceFails ==
    (Generated /\ MissingTargets # {}) =>
        \A t \in MissingTargets :
            \A i \in DOMAIN models_content :
                ~Contains(models_content[i], swift_class_name(t))

\* The header line of an emitted record.
StructHeader(d) ==
    <<"public", " ", "struct", " ">> \o d.name \o <<":", " ">> \o d.conformance \o <<" ", "{">>

\* Whether a property of the record is declared with the placeholder type.
HasPlaceholderProperty(d) ==
    \E k \in DOMAIN d.properties : Contains(d.properties[k].type, <<"SAOAIJSONValue">>)

\* C6 as stated: a record is 'Codable, Equatable' unless one of its property
\* types is the placeholder SAOAIJSONValue, and then it is 'Codable' alone.
C6_Original ==
    Generated =>
        \A i \in EmittedStructs :
            /\ StructHeader(emitted[i]) \in Range(models_content)
            /\ emitted[i].conformance =
                  IF HasPlaceholderProperty(emitted[i]) THEN <<"Codable">>
                  ELSE <<"Codable", ",", " ", "Equatable">>

\* C6 amended: every generated record is declared 'Codable, Equatable', also
\* when a property type is the placeholder SAOAIJSONValue: the only type text
\* that would make it 'Codable' alone, '[String: Any]', is one that
\* swift_type_from_schema never returns.
C6_AlwaysEquatable ==
    Generated =>
        \A i \in EmittedStructs :
            /\ StructHeader(emitted[i]) \in Range(models_content)
            /\ emitted[i].conformance = <<"Codable", ",", " ", "Equatable">>

\* C6 witness: a record with a property of the placeholder type, declared
\* 'Codable, Equatable'.
C6_Witness ==
    /\ Generated
    /\ \E i \in EmittedStructs :
          /\ HasPlaceholderProperty(emitted[i])
          /\ <<"public", " ", "struct", " ">> \o emitted[i].name
                \o <<":", " ", "Codable", ",", " ", "Equatable", " ", "{">> \in Range(models_content)

\* A schema node of type string with an enumeration constraint.
IsEnumString(node) == Get(node, "type", "string") = "string" /\ "enum" \in DOMAIN node

\* C7 as stated: a string node with an enumeration constraint is mapped to
\* the name of a generated enumeration type, not to the primitive text type.
C7_Original ==
    Generated =>
        \A m \in MappedNodes :
            IsEnumString(m.node) => (m.type # <<"String">> /\ m.type[1] = "Generated")

\* C7 amended: a string node with an enumeration constraint is mapped to the
\* primitive 'String', unless it also carries a '$ref' into
\* '#/components/schemas/', which is mapped first; a generated enumeration
\* is named only by a '$ref' to a top-level string schema with an enum.
C7_EnumStringIsString ==
    Generated =>
        \A m \in MappedNodes :
            /\ (IsEnumString(m.node) /\ ~HasSchemaRef(m.node)) => m.type = <<"String">>
            /\ (HasSchemaRef(m.node)
                /\ Has(GeneratorSchemas(gspec), RemoveSchemaPrefix(m.node["$ref"]))
                /\ IsEnumString(Lookup(GeneratorSchemas(gspec), RemoveSchemaPrefix(m.node["$ref"])))
                /\ "anyOf" \notin DOMAIN Lookup(GeneratorSchemas(gspec), RemoveSchemaPrefix(m.node["$ref"])))
               => m.type = swift_class_name(RemoveSchemaPrefix(m.node["$ref"]))

\* C7 witness: a property that is a string with an enumeration constraint
\* and no reference, declared 'String?'.
C7_Witness ==
    /\ Generated
    /\ \E i \in EmittedStructs :
          \E k \in DOMAIN emitted[i].properties :
              LET node == SourceSchema(emitted[i]).properties[k].schema
              IN  /\ "type" \in DOMAIN node /\ node["type"] = "string" /\ "enum" \in DOMAIN node
                  /\ ~HasSchemaRef(node)
                  /\ emitted[i].properties[k].type = <<"String", "?">>

\* An object node without nested properties, or a union-of-types node.
IsOpaqueShape(node) ==
    \/ "anyOf" \in DOMAIN node
    \/ ("type" \in DOMAIN node /\ node["type"] = "object" /\ "properties" \notin DOMAIN node)

\* The schema a node refers to, when the document defines it.
RefersToDefined(node) ==
    HasSchemaRef(node) /\ Has(GeneratorSchemas(gspec), RemoveSchemaPrefix(node["$ref"]))

RefTarget(node) == Lookup(GeneratorSchemas(gspec), RemoveSchemaPrefix(node["$ref"]))

MaxDecls == 2

\* The name of the declaration at each position of a text.
DeclNames == << <<"Widget">>, <<"Status">>, <<"Error">>, <<"Generated">> >>

\* The ways a declaration is laid out.
DeclLayouts == {"oneline", "struct", "keyed", "enum", "nextline"}

\* The lines of a declaration of the given layout and name.
DeclLines(layout, name) ==
    CASE layout = "oneline" ->
            << <<"public", " ", "struct", " ">> \o name \o <<" ", "{", "}">> >>
      [] layout = "struct" ->
            << <<"public", " ", "struct", " ">> \o name \o <<":", " ", "Codable", " ", "{">>,
               <<" ", "public", " ", "let", " ", "name", ":", " ", "String">>,
               <<"}">> >>
      [] layout = "keyed" ->
            << <<"public", " ", "struct", " ">> \o name \o <<":", " ", "Codable", " ", "{">>,
               <<" ", "public", " ", "let", " ", "max", "Tokens", ":", " ", "Int", "?">>,
               <<>>,
               <<" ", "private", " ", "enum", " ", "CodingKeys", ":", " ", "String", ",", " ",
                 "CodingKey", " ", "{">>,
               <<" ", "case", " ", "max", "Tokens", " ", "=", " ", "\"", "max", "_", "tokens", "\"">>,
               <<" ", "}">>,
               <<"}">> >>
      [] layout = "enum" ->
            << <<"public", " ", "enum", " ">> \o name \o <<":", " ", "String", " ", "{">>,
               <<" ", "case", " ", "red", " ", "=", " ", "\"", "red", "\"">>,
               <<" ", "case", " ", "green", " ", "=", " ", "\"", "green", "\"">>,
               <<"}">> >>
      [] layout = "nextline" ->
            << <<"public", " ", "struct", " ">> \o name,
               <<"{">>,
               <<" ", "public", " ", "let", " ", "size", ":", " ", "Int">>,
               <<"}">> >>

\* The layouts of the declarations of a text, and whether an empty line
\* follows each.
TextShapes ==
    UNION {[1..n -> [layout : DeclLayouts, blank : BOOLEAN]] : n \in 1..MaxDecls}

\* The lines of the text of a shape.
TextOf(shape) ==
    Flatten([i \in DOMAIN shape |->
                DeclLines(shape[i].layout, DeclNames[i])
                \o (IF shape[i].blank THEN << <<>> >> ELSE <<>>)])

SnapshotTexts == {TextOf(shape) : shape \in TextShapes}

InitParse ==
    /\ pc = "parse"
    /\ models_content \in SnapshotTexts
    /\ types = Idle
    /\ gspec = Idle /\ emitted = Idle
    /\ spec = Idle /\ referenced_schemas = Idle /\ schemas_to_process = Idle /\ pruned = Idle
    /\ saved = Idle
    /\ old = Idle /\ new = Idle /\ result = Idle

\* parse_models(text) on the text of the file.
ParseSnapshot ==
    /\ pc = "parse"
    /\ types' = parse_models(models_content)
    /\ pc' = "parsed"
    /\ UNCHANGED <<gspec, models_content, emitted, prunerVars, classifierVars>>

NextParse == ParseSnapshot

SpecParse == InitParse /\ [][NextParse]_vars

(***************************************************************************)
(* Claims about the parser on snapshot texts.                              *)
(***************************************************************************)
\* The shape a snapshot text was written from.
ShapeOf(text) == CHOOSE shape \in TextShapes : TextOf(shape) = text

\* What a declaration of the layout states between its braces: the kind, the
\* properties of a record with their types, the cases of an enumeration.
StatedBy(layout) ==
    CASE layout = "oneline"  -> [kind |-> "struct", properties |-> EmptyDict]
      [] layout = "struct"   -> [kind |-> "struct",
                                 properties |-> (<<"name">> :> <<"String">>)]
      [] layout = "keyed"    -> [kind |-> "struct",
                                 properties |-> (<<"max", "Tokens">> :> <<"Int", "?">>)]
      [] layout = "enum"     -> [kind |-> "enum", cases |-> Sorted({<<"red">>, <<"green">>})]
      [] layout = "nextline" -> [kind |-> "struct",
                                 properties |-> (<<"size">> :> <<"Int">>)]

\* C12 as stated: the body of each public struct or enum ends at the line
\* where its brace depth is back at zero, so that a nested block neither
\* ends the body nor adds properties, and every declaration of the text,
\* also one that follows a declaration with its braces on one line, is an
\* entry of its own with what it states.
C12_BodyEndsAtDepthZero ==
    pc = "parsed" =>
        LET shape == ShapeOf(models_content)
        IN  /\ DOMAIN types = {DeclNames[i] : i \in DOMAIN shape}
            /\ \A i \in DOMAIN shape : types[DeclNames[i]] = StatedBy(shape[i].layout)

====
